---- MODULE Spec2Model ----
(***************************************************************************)
(* Model of lol/network.py (and its duplicate facade in lol/api.py): the   *)
(* rate-limited, capacity-bounded task queue (TaskQueue, RateCounterPool,  *)
(* RateCounter), the poller thread (PeekQueueThread), the worker pool      *)
(* (FunctionalThreadPool) and the facade (APITaskQueue).                   *)
(*                                                                         *)
(* Time: `clock` counts ticks of 1/TicksPerSec second of wall-clock time;  *)
(* the code reads math.ceil(time.time()), modelled by Now(clock).          *)
(* Threads: the caller of the constructor and of start() ("main"), the     *)
(* poller, workers 1..num_threads, and an external caller of put().        *)
(* A worker's `with lock:` is an acquire step followed by a body step that *)
(* releases the lock on return; the poller and put() take a lock, run the  *)
(* body and release the lock in one step, enabled when the lock is free.   *)
(***************************************************************************)
EXTENDS Integers, Sequences, FiniteSets, TLC

\* ---------------------------------------------------------------- bounds
MaxTasks == 3        \* task identities 1..MaxTasks ever offered to put()
MaxPut == 2          \* longest task list handed to one put()
MaxThreads == 2      \* largest num_threads
MaxKeys == 2         \* largest number of api_keys
QueueCap == 2        \* the queue_limit of the bounded configurations
ClockSlack == 0      \* extra ticks before the clock representation is rebased
MaxElapsed == 5      \* cap of the stopwatch started at the first dequeue
MaxCounterClock == 8 \* last tick of the clock handed to a RateCounter used alone
MaxCount == 3        \* cap of the increments of a RateCounter used alone
MaxLimit == 4        \* largest num_requests a repeated construction may reach

\* -------------------------------------------------------------- constants
TicksPerSec == 2     \* sleep_duration = 0.5 s is one tick
SleepTicks == 1      \* PeekQueueThread sleep_duration, in ticks
None == -1           \* Python's None (unset start, no queue_limit, no task)

Min(a, b) == IF a <= b THEN a ELSE b
Max(a, b) == IF a >= b THEN a ELSE b

\* math.ceil(time.time()) at wall-clock tick c
Now(c) == (c + TicksPerSec - 1) \div TicksPerSec

\* mutant of SliceTo: seq[-n:], the last n elements instead of the first
SliceTo_tail(s, n) ==
    IF n >= Len(s) THEN s
    ELSE IF n <= 0 THEN <<>>
    ELSE SubSeq(s, Len(s) - n + 1, Len(s))

\* Python's seq[:n]
SliceTo(s, n) ==
    IF n >= 0 THEN SubSeq(s, 1, Min(n, Len(s)))
    ELSE SubSeq(s, 1, Max(Len(s) + n, 0))

\* ------------------------------------------------------------ RateCounter
RateCounter(limit, interval) ==
    [limit |-> limit, interval |-> interval, count |-> 0, start |-> None]

\* mutant of maybe_reset: the interval test is dropped
maybe_reset_always(x, now) ==
    IF x.start # None /\ x.start # 0
    THEN [x EXCEPT !.start = now, !.count = 0]
    ELSE x

\* mutant of maybe_reset: an expired window is never reset
maybe_reset_never(x, now) == x

\* if self._start and now - self._start >= self._interval: (None and 0 are falsy)
maybe_reset(x, now) ==
    IF x.start # None /\ x.start # 0 /\ now - x.start >= x.interval
    THEN [x EXCEPT !.start = now, !.count = 0]
    ELSE x

\* mutant of RateCounter_can_add: <= instead of <
RateCounter_can_add_le(x, now) ==
    LET y == maybe_reset(x, now)
    IN  [self |-> y, ret |-> y.count <= y.limit]

RateCounter_can_add(x, now) ==
    LET y == maybe_reset(x, now)
    IN  [self |-> y, ret |-> y.count < y.limit]

\* mutant of RateCounter_time_until_ready: the wait is one second short
RateCounter_time_until_ready_short(x, now) ==
    LET y == maybe_reset(x, now)
    IN  [self |-> y,
         ret |-> IF y.start = None \/ y.count < y.limit
                 THEN -1
                 ELSE y.interval - (now - y.start) - 1]

RateCounter_time_until_ready(x, now) ==
    LET y == maybe_reset(x, now)
    IN  [self |-> y,
         ret |-> IF y.start = None \/ y.count < y.limit
                 THEN -1
                 ELSE y.interval - (now - y.start)]

RateCounter_increment(x, now) ==
    LET a == IF x.start = None THEN [x EXCEPT !.start = now] ELSE x
        b == maybe_reset(a, now)
    IN  [b EXCEPT !.count = @ + 1]

\* -------------------------------------------------------- RateCounterPool
\* mutant of ValidRateLimits: >= 0 instead of > 0
ValidRateLimits_nonneg(rate_limits) ==
    \A i \in 1..Len(rate_limits) :
        /\ Len(rate_limits[i]) = 2
        /\ rate_limits[i][1] >= 0
        /\ rate_limits[i][2] >= 0

\* assert all(len(x) == 2 and x[0] > 0 and x[1] > 0 for x in rate_limits)
ValidRateLimits(rate_limits) ==
    \A i \in 1..Len(rate_limits) :
        /\ Len(rate_limits[i]) = 2
        /\ rate_limits[i][1] > 0
        /\ rate_limits[i][2] > 0

RateCounterPool(rate_limits) ==
    [i \in 1..Len(rate_limits) |-> RateCounter(rate_limits[i][1], rate_limits[i][2])]

\* all(x.can_add(now) for x in self._rate_counters): the generator stops at the
\* first counter that refuses, so can_add runs on (and may reset) counter i
\* only if every counter before it admitted; the counters after the first
\* refusal are not touched.
Pool_can_add(cs, now) ==
    [self |-> [i \in 1..Len(cs) |->
                  IF \A j \in 1..(i - 1) : RateCounter_can_add(cs[j], now).ret
                  THEN RateCounter_can_add(cs[i], now).self
                  ELSE cs[i]],
     ret |-> \A i \in 1..Len(cs) : RateCounter_can_add(cs[i], now).ret]

\* max(x.time_until_ready(now) for x in ...); ready if ready > 0 else None
Pool_time_until_ready(cs, now) ==
    LET rs == [i \in 1..Len(cs) |-> RateCounter_time_until_ready(cs[i], now)]
        ready == CHOOSE m \in {rs[i].ret : i \in 1..Len(cs)} :
                     \A i \in 1..Len(cs) : rs[i].ret <= m
    IN  [self |-> [i \in 1..Len(cs) |-> rs[i].self],
         ret |-> IF ready > 0 THEN ready ELSE None]

Pool_increment(cs, now) ==
    [i \in 1..Len(cs) |-> RateCounter_increment(cs[i], now)]

\* -------------------------------------------------------------- TaskQueue
\* mutant of TaskQueue_put: the list is not truncated to the free capacity
TaskQueue_put_notrunc(q, limit, tasks) ==
    [queue |-> q \o tasks, ret |-> Len(tasks)]

\* put(tasks): the body under self._lock
TaskQueue_put(q, limit, tasks) ==
    IF limit = None
    THEN [queue |-> q \o tasks, ret |-> Len(tasks)]
    ELSE LET truncated == SliceTo(tasks, limit - Len(q))
         IN  [queue |-> q \o truncated, ret |-> Len(truncated)]

\* mutant of TaskQueue_status: the rate decision is ignored
TaskQueue_status_norate(q, cs, c) ==
    IF Len(q) > 0 THEN [rc |-> cs, ret |-> <<"available">>]
    ELSE [rc |-> cs, ret |-> <<"empty">>]

\* status(): the body under self._lock; ret is the returned tuple
TaskQueue_status(q, cs, c) ==
    LET now == Now(c)
        a == Pool_can_add(cs, now)
    IN  IF a.ret /\ Len(q) > 0 THEN [rc |-> a.self, ret |-> <<"available">>]
        ELSE IF Len(q) = 0 THEN [rc |-> a.self, ret |-> <<"empty">>]
        ELSE LET t == Pool_time_until_ready(a.self, now)
             IN  IF t.ret = None THEN [rc |-> t.self, ret |-> <<"not_started">>]
                 ELSE [rc |-> t.self, ret |-> <<"unavailable", t.ret>>]

\* mutant of TaskQueue_get: the head is returned but not popped
TaskQueue_get_nopop(q, cs, c) ==
    LET now == Now(c)
        a == Pool_can_add(cs, now)
    IN  IF a.ret /\ Len(q) > 0
        THEN [rc |-> Pool_increment(a.self, now), queue |-> q, ret |-> Head(q)]
        ELSE [rc |-> a.self, queue |-> q, ret |-> None]

\* get(): the body under self._lock; ret is the task or None
TaskQueue_get(q, cs, c) ==
    LET now == Now(c)
        a == Pool_can_add(cs, now)
    IN  IF a.ret /\ Len(q) > 0
        THEN [rc |-> Pool_increment(a.self, now), queue |-> Tail(q), ret |-> Head(q)]
        ELSE [rc |-> a.self, queue |-> q, ret |-> None]

\* ----------------------------------------------------------- APITaskQueue
\* Scale up the rate limits: only when len(api_keys) > 1
ScaledRateLimits(nkeys, rate_limits) ==
    IF nkeys > 1
    THEN [i \in 1..Len(rate_limits) |->
              <<rate_limits[i][1] * nkeys, rate_limits[i][2]>>]
    ELSE rate_limits

\* FunctionalThreadPool.__init__: assert num_threads > 0
ValidNumThreads(n) == n > 0

\* APITaskQueue.__init__ raises iff one of its assertions (its own, the
\* RateCounterPool's on the scaled rules, the thread pool's) fails.
ConstructionOk(c) ==
    /\ ValidRateLimits(c.rate_limits)
    /\ ValidRateLimits(ScaledRateLimits(c.api_keys, c.rate_limits))
    /\ ValidNumThreads(c.num_threads)

\* mutant of NextKeyCounter: the cursor advances by two
NextKeyCounter_skip(k, nkeys) == (k + 2) % nkeys

\* self._key_counter = (self._key_counter + 1) % len(self._api_keys)
NextKeyCounter(k, nkeys) == (k + 1) % nkeys

\* ---------------------------------------------------------- configuration
\* The constructor arguments explored: api_keys is the number of keys (the
\* keys are 0..api_keys-1), rate_limits a sequence of <<num_requests, num_seconds>>.
Cfg(k, r, q, n) == [api_keys |-> k, rate_limits |-> r, queue_limit |-> q, num_threads |-> n]

ValidConfigs ==
    { Cfg(0, <<>>, None, MaxThreads),
      Cfg(MaxKeys, <<>>, QueueCap, MaxThreads),
      Cfg(0, << <<1, 2>> >>, None, 1),
      Cfg(0, << <<2, 2>>, <<1, 1>> >>, QueueCap, MaxThreads),
      Cfg(MaxKeys, << <<1, 2>> >>, None, 1),
      Cfg(1, << <<2, 2>> >>, QueueCap, 1) }

InvalidConfigs ==
    { Cfg(0, << <<0, 2>> >>, None, 1),
      Cfg(1, << <<1, 0>> >>, QueueCap, MaxThreads),
      Cfg(MaxKeys, << <<2, 2>>, <<1, -1>> >>, None, 1),
      Cfg(MaxKeys, << <<-1, 2>> >>, None, 1),
      Cfg(0, <<>>, None, 0),
      Cfg(1, << <<1, 2>> >>, QueueCap, 0) }

Configs == ValidConfigs \cup InvalidConfigs

\* the largest num_seconds of a rule of a configuration
MaxInterval ==
    LET ts == {1} \cup UNION {{c.rate_limits[i][2] : i \in 1..Len(c.rate_limits)} : c \in Configs}
    IN  CHOOSE m \in ts : \A t \in ts : t <= m

\* The clock value at which the representation of time is shifted back by one
\* second (see Tick): late enough that a clamped start is expired for every rule.
MaxClock == TicksPerSec * (MaxInterval + 2) + ClockSlack

Workers == 1..MaxThreads

VARIABLES
    cfg,         \* the constructor's arguments
    rate_limits_arg, \* the list object passed as rate_limits (the
                 \* constructor assigns to its items)
    mainPc,      \* the constructing/starting thread: new, error, constructed,
                 \* started_poller, shutdown_wait, returned
    clock,       \* wall-clock time in ticks
    queue,       \* TaskQueue._queue
    rc,          \* TaskQueue._rate_counters._rate_counters
    qOwner,      \* holder of TaskQueue._lock ({} when free)
    cvOwner,     \* holder of the lock of APITaskQueue._cv
    keyOwner,    \* holder of APITaskQueue._key_lock
    key_counter, \* APITaskQueue._key_counter
    ppc,         \* poller: off, poll (sleep, then status), notify
    sleepLeft,   \* ticks left of the poller's time.sleep
    wpc,         \* worker: off, loop, pred, get, waiting, woken, key, keyed, run, dead
    wtask,       \* the task a worker holds (None if none)
    wkey,        \* the key a worker read for its task (None if none)
    nextTask,    \* the next fresh task identity
    accepted,    \* history: tasks appended by put()
    got,         \* history: dequeues in order, [task, at]
    keyed,       \* history: key assignments in key-lock order, [task, key]
    invoked,     \* history: tasks whose invocation has ended
    elapsed      \* history: ticks since the first dequeue (None before it)

vars == <<cfg, rate_limits_arg, mainPc, clock, queue, rc, qOwner, cvOwner, keyOwner, key_counter,
          ppc, sleepLeft, wpc, wtask, wkey, nextTask, accepted, got, keyed,
          invoked, elapsed>>

progVars == <<cfg, rate_limits_arg, queue, rc, qOwner, cvOwner, keyOwner, key_counter,
              ppc, sleepLeft, wpc, wtask, wkey>>
histVars == <<accepted, got, keyed, invoked>>

\* the state before the constructor runs, for a set of constructor arguments
InitWith(cs) ==
    /\ cfg \in cs
    /\ rate_limits_arg = cfg.rate_limits
    /\ mainPc = "new"
    /\ clock = 1
    /\ queue = <<>>
    /\ rc = <<>>
    /\ qOwner = {}
    /\ cvOwner = {}
    /\ keyOwner = {}
    /\ key_counter = 0
    /\ ppc = "off"
    /\ sleepLeft = 0
    /\ wpc = [w \in Workers |-> "off"]
    /\ wtask = [w \in Workers |-> None]
    /\ wkey = [w \in Workers |-> None]
    /\ nextTask = 1
    /\ accepted = {}
    /\ got = <<>>
    /\ keyed = <<>>
    /\ invoked = {}
    /\ elapsed = None

Init == InitWith(Configs)

\* ------------------------------------------------------------ main thread
\* APITaskQueue.__init__ succeeds: the rules are scaled by assignment to the
\* items of the list that was passed, which the TaskQueue then reads
Construct ==
    /\ mainPc = "new"
    /\ ConstructionOk(cfg)
    /\ rate_limits_arg' = ScaledRateLimits(cfg.api_keys, rate_limits_arg)
    /\ rc' = RateCounterPool(rate_limits_arg')
    /\ mainPc' = "constructed"
    /\ UNCHANGED <<cfg, clock, queue, qOwner, cvOwner, keyOwner, key_counter, ppc,
                   sleepLeft, wpc, wtask, wkey, nextTask, accepted, got, keyed,
                   invoked, elapsed>>

\* APITaskQueue.__init__ raises AssertionError
ConstructFail ==
    /\ mainPc = "new"
    /\ ~ConstructionOk(cfg)
    /\ mainPc' = "error"
    /\ UNCHANGED <<cfg, rate_limits_arg, clock, queue, rc, qOwner, cvOwner, keyOwner, key_counter,
                   ppc, sleepLeft, wpc, wtask, wkey, nextTask, accepted, got,
                   keyed, invoked, elapsed>>

\* start(): PeekQueueThread(self._queue, self._cv).start()
StartPoller ==
    /\ mainPc = "constructed"
    /\ mainPc' = "started_poller"
    /\ ppc' = "poll"
    /\ UNCHANGED <<cfg, rate_limits_arg, clock, queue, rc, qOwner, cvOwner, keyOwner, key_counter,
                   sleepLeft, wpc, wtask, wkey, nextTask, accepted, got, keyed,
                   invoked, elapsed>>

\* start(): self._thread_pool.start(): the executor submits num_threads
\* run_forever loops, then leaves its `with` block, whose exit is
\* shutdown(wait=True): the caller joins the workers.
StartPool ==
    /\ mainPc = "started_poller"
    /\ mainPc' = "shutdown_wait"
    /\ wpc' = [w \in Workers |-> IF w <= cfg.num_threads THEN "loop" ELSE "off"]
    /\ UNCHANGED <<cfg, rate_limits_arg, clock, queue, rc, qOwner, cvOwner, keyOwner, key_counter,
                   ppc, sleepLeft, wtask, wkey, nextTask, accepted, got, keyed,
                   invoked, elapsed>>

\* mutant of StartReturn: shutdown(wait=False), the caller does not join
StartReturn_nowait ==
    /\ mainPc = "shutdown_wait"
    /\ mainPc' = "returned"
    /\ UNCHANGED <<cfg, rate_limits_arg, clock, queue, rc, qOwner, cvOwner, keyOwner, key_counter,
                   ppc, sleepLeft, wpc, wtask, wkey, nextTask, accepted, got,
                   keyed, invoked, elapsed>>

\* shutdown(wait=True) returns once every submitted loop has ended
StartReturn ==
    /\ mainPc = "shutdown_wait"
    /\ \A w \in Workers : wpc[w] \in {"off", "dead"}
    /\ mainPc' = "returned"
    /\ UNCHANGED <<cfg, rate_limits_arg, clock, queue, rc, qOwner, cvOwner, keyOwner, key_counter,
                   ppc, sleepLeft, wpc, wtask, wkey, nextTask, accepted, got,
                   keyed, invoked, elapsed>>

\* ------------------------------------------------------------------- put
Constructed == mainPc \in {"constructed", "started_poller", "shutdown_wait", "returned"}

\* APITaskQueue.put(tasks) by an external caller: fresh tasks nextTask, ...
Put(k) ==
    /\ Constructed
    /\ qOwner = {}
    /\ nextTask + k - 1 <= MaxTasks
    /\ LET tasks == [i \in 1..k |-> nextTask + i - 1]
           r == TaskQueue_put(queue, cfg.queue_limit, tasks)
       IN  /\ queue' = r.queue
           /\ accepted' = accepted \cup {tasks[i] : i \in 1..r.ret}
    /\ nextTask' = nextTask + k
    /\ UNCHANGED <<cfg, rate_limits_arg, mainPc, clock, rc, qOwner, cvOwner, keyOwner, key_counter,
                   ppc, sleepLeft, wpc, wtask, wkey, got, keyed, invoked, elapsed>>

\* ---------------------------------------------------------------- poller
\* status = self._queue.status(), once the sleep is over: the lock is taken,
\* the body runs and the lock is released in one step; then run() branches
PStatus ==
    /\ ppc = "poll"
    /\ sleepLeft = 0
    /\ qOwner = {}
    /\ \E s \in {TaskQueue_status(queue, rc, clock)} :
           /\ rc' = s.rc
           /\ IF s.ret[1] = "available"
              THEN ppc' = "notify" /\ sleepLeft' = 0
              ELSE IF s.ret[1] = "unavailable"
              THEN ppc' = "poll" /\ sleepLeft' = s.ret[2] * TicksPerSec
              ELSE ppc' = "poll" /\ sleepLeft' = SleepTicks
    /\ UNCHANGED <<cfg, rate_limits_arg, mainPc, clock, queue, qOwner, cvOwner, keyOwner, key_counter,
                   wpc, wtask, wkey, nextTask, accepted, got, keyed, invoked,
                   elapsed>>

\* mutant of PNotify: the notification reaches no waiting worker
PNotify_lost ==
    /\ ppc = "notify"
    /\ cvOwner = {}
    /\ sleepLeft' = SleepTicks
    /\ ppc' = "poll"
    /\ UNCHANGED <<cfg, rate_limits_arg, mainPc, clock, queue, rc, qOwner, cvOwner, keyOwner,
                   key_counter, wpc, wtask, wkey, nextTask, accepted, got, keyed,
                   invoked, elapsed>>

\* with self._notify_cv: self._notify_cv.notify_all(), in one step with the
\* acquisition and release of the condition's lock; then time.sleep(0.5)
PNotify ==
    /\ ppc = "notify"
    /\ cvOwner = {}
    /\ wpc' = [w \in Workers |-> IF wpc[w] = "waiting" THEN "woken" ELSE wpc[w]]
    /\ sleepLeft' = SleepTicks
    /\ ppc' = "poll"
    /\ UNCHANGED <<cfg, rate_limits_arg, mainPc, clock, queue, rc, qOwner, cvOwner, keyOwner,
                   key_counter, wtask, wkey, nextTask, accepted, got, keyed,
                   invoked, elapsed>>

\* --------------------------------------------------------------- workers
\* _check_and_run: `with self._cv:` acquires the condition's lock
WLockCv(w) ==
    /\ wpc[w] = "loop"
    /\ cvOwner = {}
    /\ cvOwner' = {w}
    /\ wpc' = [wpc EXCEPT ![w] = "pred"]
    /\ UNCHANGED <<cfg, rate_limits_arg, mainPc, clock, queue, rc, qOwner, keyOwner, key_counter,
                   ppc, sleepLeft, wtask, wkey, nextTask, accepted, got, keyed,
                   invoked, elapsed>>

\* wait_for evaluates the predicate self._queue.get: acquire TaskQueue._lock
WLockQueue(w) ==
    /\ wpc[w] = "pred"
    /\ qOwner = {}
    /\ qOwner' = {w}
    /\ wpc' = [wpc EXCEPT ![w] = "get"]
    /\ UNCHANGED <<cfg, rate_limits_arg, mainPc, clock, queue, rc, cvOwner, keyOwner, key_counter,
                   ppc, sleepLeft, wtask, wkey, nextTask, accepted, got, keyed,
                   invoked, elapsed>>

\* Where a worker goes once wait_for returned a task
AfterDequeue == IF cfg.api_keys > 0 THEN "key" ELSE "run"

\* mutant of WGet: get() returns without releasing TaskQueue._lock
WGet_keeplock(w) ==
    /\ wpc[w] = "get"
    /\ \E g \in {TaskQueue_get(queue, rc, clock)} :
           /\ rc' = g.rc
           /\ queue' = g.queue
           /\ wtask' = [wtask EXCEPT ![w] = g.ret]
           /\ IF g.ret # None
              THEN /\ wpc' = [wpc EXCEPT ![w] = AfterDequeue]
                   /\ elapsed' = IF elapsed = None THEN 0 ELSE elapsed
                   /\ got' = Append(got, [task |-> g.ret, at |-> elapsed'])
              ELSE /\ wpc' = [wpc EXCEPT ![w] = "waiting"]
                   /\ UNCHANGED <<got, elapsed>>
    /\ qOwner' = qOwner
    /\ cvOwner' = {}
    /\ UNCHANGED <<cfg, rate_limits_arg, mainPc, clock, keyOwner, key_counter, ppc, sleepLeft,
                   wkey, nextTask, accepted, keyed, invoked>>

\* mutant of WGet: on None the worker retries without waiting for a notify
WGet_nowait(w) ==
    /\ wpc[w] = "get"
    /\ \E g \in {TaskQueue_get(queue, rc, clock)} :
           /\ rc' = g.rc
           /\ queue' = g.queue
           /\ wtask' = [wtask EXCEPT ![w] = g.ret]
           /\ IF g.ret # None
              THEN /\ wpc' = [wpc EXCEPT ![w] = AfterDequeue]
                   /\ elapsed' = IF elapsed = None THEN 0 ELSE elapsed
                   /\ got' = Append(got, [task |-> g.ret, at |-> elapsed'])
              ELSE /\ wpc' = [wpc EXCEPT ![w] = "woken"]
                   /\ UNCHANGED <<got, elapsed>>
    /\ qOwner' = {}
    /\ cvOwner' = {}
    /\ UNCHANGED <<cfg, rate_limits_arg, mainPc, clock, keyOwner, key_counter, ppc, sleepLeft,
                   wkey, nextTask, accepted, keyed, invoked>>

\* the body of get(); a task ends wait_for and the `with` block, None makes
\* wait_for call wait(), which releases the condition's lock and blocks
WGet(w) ==
    /\ wpc[w] = "get"
    /\ \E g \in {TaskQueue_get(queue, rc, clock)} :
           /\ rc' = g.rc
           /\ queue' = g.queue
           /\ wtask' = [wtask EXCEPT ![w] = g.ret]
           /\ IF g.ret # None
              THEN /\ wpc' = [wpc EXCEPT ![w] = AfterDequeue]
                   /\ elapsed' = IF elapsed = None THEN 0 ELSE elapsed
                   /\ got' = Append(got, [task |-> g.ret, at |-> elapsed'])
              ELSE /\ wpc' = [wpc EXCEPT ![w] = "waiting"]
                   /\ UNCHANGED <<got, elapsed>>
    /\ qOwner' = {}
    /\ cvOwner' = {}
    /\ UNCHANGED <<cfg, rate_limits_arg, mainPc, clock, keyOwner, key_counter, ppc, sleepLeft,
                   wkey, nextTask, accepted, keyed, invoked>>

\* wait() returns after a notify: it re-acquires the condition's lock
WReacquire(w) ==
    /\ wpc[w] = "woken"
    /\ cvOwner = {}
    /\ cvOwner' = {w}
    /\ wpc' = [wpc EXCEPT ![w] = "pred"]
    /\ UNCHANGED <<cfg, rate_limits_arg, mainPc, clock, queue, rc, qOwner, keyOwner, key_counter,
                   ppc, sleepLeft, wtask, wkey, nextTask, accepted, got, keyed,
                   invoked, elapsed>>

\* with self._key_lock:
WLockKey(w) ==
    /\ wpc[w] = "key"
    /\ keyOwner = {}
    /\ keyOwner' = {w}
    /\ wpc' = [wpc EXCEPT ![w] = "keyed"]
    /\ UNCHANGED <<cfg, rate_limits_arg, mainPc, clock, queue, rc, qOwner, cvOwner, key_counter,
                   ppc, sleepLeft, wtask, wkey, nextTask, accepted, got, keyed,
                   invoked, elapsed>>

\* mutant of WKey: the task is invoked inside the `with self._key_lock:` block
WKey_inside(w) ==
    /\ wpc[w] = "keyed"
    /\ wkey' = [wkey EXCEPT ![w] = key_counter]
    /\ key_counter' = NextKeyCounter(key_counter, cfg.api_keys)
    /\ keyed' = Append(keyed, [task |-> wtask[w], key |-> key_counter])
    /\ keyOwner' = keyOwner
    /\ wpc' = [wpc EXCEPT ![w] = "run"]
    /\ UNCHANGED <<cfg, rate_limits_arg, mainPc, clock, queue, rc, qOwner, cvOwner, ppc, sleepLeft,
                   wtask, nextTask, accepted, got, invoked, elapsed>>

\* key = self._api_keys[self._key_counter]; advance the counter; release
WKey(w) ==
    /\ wpc[w] = "keyed"
    /\ wkey' = [wkey EXCEPT ![w] = key_counter]
    /\ key_counter' = NextKeyCounter(key_counter, cfg.api_keys)
    /\ keyed' = Append(keyed, [task |-> wtask[w], key |-> key_counter])
    /\ keyOwner' = {}
    /\ wpc' = [wpc EXCEPT ![w] = "run"]
    /\ UNCHANGED <<cfg, rate_limits_arg, mainPc, clock, queue, rc, qOwner, cvOwner, ppc, sleepLeft,
                   wtask, nextTask, accepted, got, invoked, elapsed>>

\* task(key=key) / task() returns; run_forever calls _check_and_run again
WReturn(w) ==
    /\ wpc[w] = "run"
    /\ invoked' = invoked \cup {wtask[w]}
    /\ wtask' = [wtask EXCEPT ![w] = None]
    /\ wkey' = [wkey EXCEPT ![w] = None]
    /\ wpc' = [wpc EXCEPT ![w] = "loop"]
    /\ UNCHANGED <<cfg, rate_limits_arg, mainPc, clock, queue, rc, qOwner, cvOwner, keyOwner,
                   key_counter, ppc, sleepLeft, nextTask, accepted, got, keyed,
                   elapsed>>

\* mutant of WRaise: the failure is caught, the task is put back and the
\* loop goes on
WRaise_retry(w) ==
    /\ wpc[w] = "run"
    /\ queue' = Append(queue, wtask[w])
    /\ wtask' = [wtask EXCEPT ![w] = None]
    /\ wkey' = [wkey EXCEPT ![w] = None]
    /\ wpc' = [wpc EXCEPT ![w] = "loop"]
    /\ UNCHANGED <<cfg, rate_limits_arg, mainPc, clock, rc, qOwner, cvOwner, keyOwner,
                   key_counter, ppc, sleepLeft, nextTask, accepted, got, keyed,
                   invoked, elapsed>>

\* task(...) raises: the exception ends run_forever, the loop is over
WRaise(w) ==
    /\ wpc[w] = "run"
    /\ invoked' = invoked \cup {wtask[w]}
    /\ wtask' = [wtask EXCEPT ![w] = None]
    /\ wkey' = [wkey EXCEPT ![w] = None]
    /\ wpc' = [wpc EXCEPT ![w] = "dead"]
    /\ UNCHANGED <<cfg, rate_limits_arg, mainPc, clock, queue, rc, qOwner, cvOwner, keyOwner,
                   key_counter, ppc, sleepLeft, nextTask, accepted, got, keyed,
                   elapsed>>

\* ------------------------------------------------------------------ time
\* The code only ever subtracts timestamps, so once the clock reaches MaxClock
\* every timestamp is moved back by one second; a start that would leave the
\* positive range is older than any interval and is kept at 1 (still expired).
Rebase(s) == IF s = None THEN None ELSE Max(s - 1, 1)

\* One tick of wall-clock time passes: the clock advances and the poller's
\* sleep runs down
Advance ==
    /\ mainPc # "new"
    /\ mainPc # "error"
    /\ IF clock < MaxClock
       THEN clock' = clock + 1 /\ rc' = rc
       ELSE /\ clock' = clock + 1 - TicksPerSec
            /\ rc' = [i \in 1..Len(rc) |-> [rc[i] EXCEPT !.start = Rebase(@)]]
    /\ sleepLeft' = Max(sleepLeft - 1, 0)
    /\ UNCHANGED <<cfg, rate_limits_arg, mainPc, queue, qOwner, cvOwner, keyOwner, key_counter, ppc,
                   wpc, wtask, wkey, nextTask, accepted, got, keyed, invoked>>

\* a tick, with the stopwatch of the dequeue history running
Tick ==
    /\ Advance
    /\ elapsed' = IF elapsed = None THEN None ELSE Min(elapsed + 1, MaxElapsed)

\* a tick, with the stopwatch of the dequeue history stopped
TickUnobserved ==
    /\ Advance
    /\ elapsed' = elapsed

Next ==
    \/ Construct
    \/ ConstructFail
    \/ StartPoller
    \/ StartPool
    \/ StartReturn
    \/ \E k \in 0..MaxPut : Put(k)
    \/ PStatus
    \/ PNotify
    \/ \E w \in Workers : WLockCv(w)
    \/ \E w \in Workers : WLockQueue(w)
    \/ \E w \in Workers : WGet(w)
    \/ \E w \in Workers : WReacquire(w)
    \/ \E w \in Workers : WLockKey(w)
    \/ \E w \in Workers : WKey(w)
    \/ \E w \in Workers : WReturn(w)
    \/ \E w \in Workers : WRaise(w)
    \/ Tick

Spec == Init /\ [][Next]_vars

\* --------------------------------------------------------------- liveness
\* The configurations of the liveness check: no rule with several workers,
\* one rule with several workers, two rules with a bounded queue, and one
\* rule scaled by several keys.
LiveConfigs ==
    { Cfg(0, <<>>, None, MaxThreads),
      Cfg(0, << <<1, 2>> >>, None, MaxThreads),
      Cfg(0, << <<2, 2>>, <<1, 1>> >>, QueueCap, 1),
      Cfg(MaxKeys, << <<1, 2>> >>, None, 1) }

InitLive == InitWith(LiveConfigs)

\* Every task invocation returns normally and the construction succeeds; the
\* dequeue times are not recorded (no liveness statement reads them).
NextLive ==
    \/ Construct
    \/ StartPoller
    \/ StartPool
    \/ \E k \in 0..MaxPut : Put(k)
    \/ PStatus
    \/ PNotify
    \/ \E w \in Workers : WLockCv(w)
    \/ \E w \in Workers : WLockQueue(w)
    \/ \E w \in Workers : WGet(w)
    \/ \E w \in Workers : WReacquire(w)
    \/ \E w \in Workers : WLockKey(w)
    \/ \E w \in Workers : WKey(w)
    \/ \E w \in Workers : WReturn(w)
    \/ TickUnobserved

\* the next step of the poller thread, and of worker w when its tasks return
PollerStep == PStatus \/ PNotify
WorkerStep(w) ==
    \/ WLockCv(w) \/ WLockQueue(w) \/ WGet(w) \/ WReacquire(w)
    \/ WLockKey(w) \/ WKey(w) \/ WReturn(w)

\* Fair scheduling of the poller and of each worker, a clock that advances,
\* and tasks that return; put() and the caller of start() are not forced.
Fairness ==
    /\ WF_vars(TickUnobserved)
    /\ WF_vars(PollerStep)
    /\ \A w \in Workers : WF_vars(WorkerStep(w))

SpecLive == InitLive /\ [][NextLive]_vars /\ Fairness

\* ------------------------------------------------- RateCounter used alone
\* A single-threaded caller drives one RateCounter through its public
\* methods, handing it now = ceil of a clock that starts at 0 and advances.
CounterRules == {<<l, t>> : l \in 1..2, t \in 1..2}

InitCounter ==
    /\ cfg \in {Cfg(0, <<r>>, None, 1) : r \in CounterRules}
    /\ rate_limits_arg = cfg.rate_limits
    /\ mainPc = "new"
    /\ clock = 0
    /\ queue = <<>>
    /\ rc = RateCounterPool(cfg.rate_limits)
    /\ qOwner = {}
    /\ cvOwner = {}
    /\ keyOwner = {}
    /\ key_counter = 0
    /\ ppc = "off"
    /\ sleepLeft = 0
    /\ wpc = [w \in Workers |-> "off"]
    /\ wtask = [w \in Workers |-> None]
    /\ wkey = [w \in Workers |-> None]
    /\ nextTask = 1
    /\ accepted = {}
    /\ got = <<>>
    /\ keyed = <<>>
    /\ invoked = {}
    /\ elapsed = None

counterFrame == <<cfg, rate_limits_arg, mainPc, queue, qOwner, cvOwner, keyOwner, key_counter, ppc,
                  sleepLeft, wpc, wtask, wkey, nextTask, accepted, got, keyed,
                  invoked, elapsed>>

\* x.can_add(now)
CounterCanAdd ==
    /\ rc' = <<RateCounter_can_add(rc[1], Now(clock)).self>>
    /\ UNCHANGED <<clock, counterFrame>>

\* x.time_until_ready(now)
CounterTimeUntilReady ==
    /\ rc' = <<RateCounter_time_until_ready(rc[1], Now(clock)).self>>
    /\ UNCHANGED <<clock, counterFrame>>

\* x.increment(now)
CounterIncrement ==
    /\ rc[1].count < MaxCount
    /\ rc' = <<RateCounter_increment(rc[1], Now(clock))>>
    /\ UNCHANGED <<clock, counterFrame>>

\* time passes between two calls
CounterTick ==
    /\ clock < MaxCounterClock
    /\ clock' = clock + 1
    /\ UNCHANGED <<rc, counterFrame>>

NextCounter ==
    \/ CounterCanAdd
    \/ CounterTimeUntilReady
    \/ CounterIncrement
    \/ CounterTick

SpecCounter == InitCounter /\ [][NextCounter]_vars

\* ------------------------------------------- construction from a used list
\* A further APITaskQueue(api_keys, rate_limits, ...) is constructed with the
\* same list object as the first, before the first was given any task; in
\* the model the new scheduler takes the place of the first.
Reconstruct ==
    /\ mainPc = "constructed"
    /\ queue = <<>>
    /\ nextTask = 1
    /\ ValidRateLimits(rate_limits_arg)
    /\ \A i \in 1..Len(rate_limits_arg) :
           rate_limits_arg[i][1] * Max(cfg.api_keys, 1) <= MaxLimit
    /\ rate_limits_arg' = ScaledRateLimits(cfg.api_keys, rate_limits_arg)
    /\ rc' = RateCounterPool(rate_limits_arg')
    /\ UNCHANGED <<cfg, mainPc, clock, queue, qOwner, cvOwner, keyOwner, key_counter,
                   ppc, sleepLeft, wpc, wtask, wkey, nextTask, accepted, got, keyed,
                   invoked, elapsed>>

NextScale ==
    \/ Next
    \/ Reconstruct

SpecScale == Init /\ [][NextScale]_vars

\* ------------------------------------------------------ derived histories
GotTasks == [i \in 1..Len(got) |-> got[i].task]
Range(f) == {f[i] : i \in DOMAIN f}
NoDuplicates(f) == \A i, j \in DOMAIN f : i # j => f[i] # f[j]
Holding(w) == wtask[w] # None
\* tasks offered to put() and not appended
Dropped == (1..(nextTask - 1)) \ accepted
Started == mainPc \in {"shutdown_wait", "returned"}

\* ------------------------------------------------------------------- C1
\* C1 (as claimed): for every rule (N, T) of the queue and every interval of T
\* consecutive seconds, at most N get() calls return a task in that interval:
\* no N+1 successive dequeues lie less than T seconds apart. (Dequeue times
\* are read off the stopwatch; a time at its cap is not compared.)
C1_SlidingWindowRate ==
    \A i \in 1..Len(rc) : \A a, b \in 1..Len(got) :
        (b - a = rc[i].limit /\ got[b].at < MaxElapsed)
            => got[b].at - got[a].at >= rc[i].interval * TicksPerSec

\* ------------------------------------------------------------------- C2
\* C2: exactly-once dequeue. Every task accepted by put() is either still in
\* the queue or was returned by exactly one get(); a returned task is held by
\* exactly one worker or its invocation is over; no worker holds a task that
\* get() did not return to it, and no task is invoked twice or unreturned.
C2_ExactlyOnce ==
    /\ NoDuplicates(queue)
    /\ NoDuplicates(GotTasks)
    /\ Range(queue) \cap Range(GotTasks) = {}
    /\ Range(queue) \cup Range(GotTasks) = accepted
    /\ \A w \in Workers : Holding(w) =>
           /\ wtask[w] \in Range(GotTasks)
           /\ wtask[w] \notin invoked
           /\ wpc[w] \in {"key", "keyed", "run"}
    /\ \A w \in Workers : wpc[w] \in {"key", "keyed", "run"} => Holding(w)
    /\ \A v, w \in Workers : (v # w /\ Holding(v)) => wtask[v] # wtask[w]
    /\ invoked \subseteq Range(GotTasks)
    /\ \A t \in Range(GotTasks) :
           t \in invoked \/ \E w \in Workers : wtask[w] = t

\* C2 witness: two workers were notified while one task was left; one of them
\* holds it and the other, woken, finds the queue empty.
C2_Witness ==
    \E v, w \in Workers :
        /\ v # w
        /\ Holding(v)
        /\ wpc[w] = "woken"
        /\ queue = <<>>
        /\ Len(got) >= 2

\* ------------------------------------------------------------------- C4
\* C4: a bounded queue never grows beyond queue_limit, every put(tasks) returns
\* exactly the number of tasks it appended, and an unbounded queue appends all
\* of tasks and returns len(tasks).
C4_PutStep ==
    /\ cfg.queue_limit # None => Len(queue') <= cfg.queue_limit
    /\ \A k \in 0..MaxPut : Put(k) =>
           LET tasks == [i \in 1..k |-> nextTask + i - 1]
               ret == TaskQueue_put(queue, cfg.queue_limit, tasks).ret
           IN  /\ ret = Len(queue') - Len(queue)
               /\ cfg.queue_limit = None => (ret = k /\ queue' = queue \o tasks)

C4_PutBounded == [][C4_PutStep]_vars

\* C4 witness: a put() on a bounded queue was cut short and the queue is full.
C4_Witness ==
    /\ cfg.queue_limit # None
    /\ Len(queue) = cfg.queue_limit
    /\ Dropped # {}
    /\ accepted # {}

\* ------------------------------------------------------------------- C5
\* The expiry test of a rate window at time now
Expired(x, now) == x.start # None /\ x.start # 0 /\ now - x.start >= x.interval

\* C5 (as claimed): status() leaves the queue contents and every rate window's
\* (count, window_start) exactly as they were.
C5_StatusStep == PStatus => (queue' = queue /\ rc' = rc)

C5_StatusReadOnly == [][C5_StatusStep]_vars

\* C5 (amended): status() leaves the queue contents unchanged and changes a
\* rate window only by the expiry reset: a window that has expired at the
\* time of the call may be reset to (count 0, window_start now); a window
\* that has not expired, and every limit and interval, is left as it was.
C5_AmendedStep ==
    PStatus =>
        /\ queue' = queue
        /\ Len(rc') = Len(rc)
        /\ \A i \in 1..Len(rc) :
               \/ rc'[i] = rc[i]
               \/ /\ Expired(rc[i], Now(clock))
                  /\ rc'[i] = [rc[i] EXCEPT !.start = Now(clock), !.count = 0]

C5_StatusResetsOnlyExpired == [][C5_AmendedStep]_vars

\* C5 witness: status() has just answered "available" after resetting a window
\* that dequeues had filled.
C5_Witness ==
    /\ ppc = "notify"
    /\ queue # <<>>
    /\ \E i \in 1..Len(rc) :
           /\ rc[i].count = 0
           /\ rc[i].start = Now(clock)
           /\ Len(got) >= rc[i].limit

\* ------------------------------------------------------------------- C6
\* position of a dequeued task in the order get() returned the tasks, from 0
DequeueIndex(t) == (CHOOSE i \in 1..Len(got) : got[i].task = t) - 1
AwaitingKey == {w \in Workers : wpc[w] \in {"key", "keyed"}}

\* C6 (as claimed): the i-th task dequeued, counting from 0 in the order
\* get() returned them, is invoked with credential c[i mod k], for any number
\* of workers.
C6_KeyByDequeueOrder ==
    cfg.api_keys > 0 =>
        \A j \in 1..Len(keyed) :
            keyed[j].key = DequeueIndex(keyed[j].task) % cfg.api_keys

\* C6 (amended): credentials rotate in the order in which the workers take
\* the credential lock: the j-th task to pass it (from 0) is invoked with
\* c[j mod k]; with one worker that is the dequeue order. The cursor stays in
\* [0, k) and has advanced exactly once per dequeued task that passed the lock.
C6_KeyByLockOrder ==
    cfg.api_keys > 0 =>
        /\ key_counter \in 0..(cfg.api_keys - 1)
        /\ key_counter = Len(keyed) % cfg.api_keys
        /\ Len(keyed) = Len(got) - Cardinality(AwaitingKey)
        /\ \A j \in 1..Len(keyed) : keyed[j].key = (j - 1) % cfg.api_keys
        /\ \A w \in Workers : wpc[w] = "run" =>
               \E j \in 1..Len(keyed) :
                   keyed[j] = [task |-> wtask[w], key |-> wkey[w]]
        /\ cfg.num_threads = 1 =>
               \A j \in 1..Len(keyed) : keyed[j].task = got[j].task

\* C6 witness: more tasks than credentials were given a key, so the rotation
\* has wrapped around.
C6_Witness ==
    /\ cfg.api_keys > 1
    /\ Len(keyed) > cfg.api_keys
    /\ keyed[Len(keyed)].key = 0

\* ------------------------------------------------------------------- C7
\* C7 (as claimed): the caller is never left blocked inside start() waiting
\* for the workers: once the poller and the pool are launched it can return.
C7_StartNonBlocking == mainPc = "shutdown_wait" => ENABLED StartReturn

\* C7 (amended): start() launches the poller and the workers and then blocks
\* its caller for as long as any worker loop is running; it returns only
\* after every worker loop has ended (which only a raising task causes).
C7_StartBlocksUntilWorkersEnd ==
    /\ Started =>
           /\ ppc # "off"
           /\ \A w \in Workers : (w <= cfg.num_threads) <=> (wpc[w] # "off")
    /\ mainPc = "returned" => \A w \in Workers : wpc[w] \in {"off", "dead"}
    /\ (mainPc = "shutdown_wait" /\ \E w \in Workers : wpc[w] \notin {"off", "dead"})
           => ~ENABLED StartReturn

\* C7 witness: start() has returned after every worker's task raised.
C7_Witness ==
    /\ mainPc = "returned"
    /\ Len(got) >= cfg.num_threads
    /\ \E w \in Workers : wpc[w] = "dead"

\* ------------------------------------------------------------------- C8
\* C8 (as claimed): with a single rule (N, T) and one worker the (j*N + 1)-th
\* successful dequeue happens no earlier than j*T seconds of wall-clock time
\* after the first. (A dequeue time at the stopwatch's cap is not compared.)
C8_ConservativePacing ==
    (Len(rc) = 1 /\ cfg.num_threads = 1 /\ cfg.api_keys <= 1) =>
        \A i \in 1..Len(got) :
            got[i].at < MaxElapsed =>
                got[i].at >= ((i - 1) \div rc[1].limit) * rc[1].interval * TicksPerSec

\* ------------------------------------------------------------------- C9
Increasing(f) == \A i, j \in DOMAIN f : i < j => f[i] < f[j]

\* C9: put(tasks) appends exactly the longest prefix of tasks that fits the
\* remaining capacity, in order, and drops the rest; on a full queue it
\* returns 0 and changes nothing; successive get() calls return the tasks in
\* the order they were appended. (Tasks are numbered in the order they are
\* offered, so FIFO is: dequeued tasks, then queued ones, in increasing order.)
C9_Step ==
    /\ Increasing(GotTasks' \o queue')
    /\ \A k \in 0..MaxPut : Put(k) =>
           LET tasks == [i \in 1..k |-> nextTask + i - 1]
               ret == TaskQueue_put(queue, cfg.queue_limit, tasks).ret
               room == IF cfg.queue_limit = None THEN k
                       ELSE cfg.queue_limit - Len(queue)
           IN  /\ ret = Min(k, room)
               /\ queue' = queue \o SubSeq(tasks, 1, Min(k, room))
               /\ room = 0 => (ret = 0 /\ queue' = queue)
    /\ \A w \in Workers : (WGet(w) /\ wtask'[w] # None) =>
           (wtask'[w] = Head(queue) /\ queue' = Tail(queue))

C9_PrefixAndFifo == [][C9_Step]_vars

\* C9 witness: a put() was cut after a proper prefix on a bounded queue and
\* tasks have since been dequeued.
C9_Witness ==
    /\ cfg.queue_limit # None
    /\ \E t \in Dropped : (t - 1) \in accepted /\ (t - 1) \in Range(GotTasks)
    /\ Len(got) >= 2

\* ------------------------------------------------------------------ C10
\* a rule whose count or window is not positive, or num_threads < 1
InvalidArgs(c) ==
    \/ \E i \in 1..Len(c.rate_limits) :
           c.rate_limits[i][1] <= 0 \/ c.rate_limits[i][2] <= 0
    \/ c.num_threads < 1

\* C10: construction with a non-positive rule or num_threads < 1 ends in an
\* error and leaves no queue, poller or worker pool; a construction that
\* succeeds keeps every rule as given (times the number of keys), never coerced.
C10_BadConfigRejected ==
    /\ InvalidArgs(cfg) =>
           /\ mainPc \in {"new", "error"}
           /\ rc = <<>> /\ queue = <<>> /\ accepted = {}
           /\ ppc = "off"
           /\ \A w \in Workers : wpc[w] = "off"
    /\ mainPc = "error" => InvalidArgs(cfg)
    /\ Constructed =>
           /\ Len(rc) = Len(cfg.rate_limits)
           /\ \A i \in 1..Len(rc) :
                  /\ rc[i].interval = cfg.rate_limits[i][2]
                  /\ rc[i].limit = cfg.rate_limits[i][1] *
                         (IF cfg.api_keys > 1 THEN cfg.api_keys ELSE 1)

\* C10 witness: a construction with a non-positive rule has failed.
C10_Witness ==
    /\ mainPc = "error"
    /\ \E i \in 1..Len(cfg.rate_limits) :
           cfg.rate_limits[i][1] <= 0 \/ cfg.rate_limits[i][2] <= 0

\* ------------------------------------------------------------------- C3
\* C3: after start(), under fair scheduling with the clock advancing and
\* every invocation returning, every task accepted by put() is eventually
\* dequeued and invoked, with or without rate limits, for one or more workers.
C3_EveryTaskInvoked ==
    \A t \in 1..MaxTasks : (t \in accepted /\ Started) ~> (t \in invoked)

\* C3 witness: under a rate limit all MaxTasks tasks were accepted and every
\* one of them has been dequeued and invoked, the last ones after a window
\* had to expire.
C3_Witness ==
    /\ Len(rc) > 0
    /\ Cardinality(accepted) = MaxTasks
    /\ invoked = accepted
    /\ \E i \in 1..Len(rc) : rc[i].limit < MaxTasks

\* ------------------------------------------------------------------ C11
\* a rate window as the expiry handling at time now leaves it
AfterExpiry(x, now) ==
    IF Expired(x, now) THEN [x EXCEPT !.start = now, !.count = 0] ELSE x

\* C11: every rate window has 0 <= count <= limit in every reachable state;
\* a get() returns a task only if, after the expiry handling at the current
\* time, every window had count < limit, and it then adds exactly one to every
\* window (none is skipped); a window that was never started starts now.
C11_Step ==
    /\ \A i \in 1..Len(rc') : rc'[i].count >= 0 /\ rc'[i].count <= rc'[i].limit
    /\ \A w \in Workers : (WGet(w) /\ wtask'[w] # None) =>
           /\ Len(rc') = Len(rc)
           /\ \A i \in 1..Len(rc) :
                  LET y == AfterExpiry(rc[i], Now(clock))
                  IN  /\ y.count < y.limit
                      /\ rc'[i].count = y.count + 1
                      /\ rc'[i].start = IF y.start = None THEN Now(clock) ELSE y.start
    /\ \A w \in Workers : (WGet(w) /\ wtask'[w] = None /\ queue # <<>>) =>
           \E i \in 1..Len(rc) :
               AfterExpiry(rc[i], Now(clock)).count >= rc[i].limit

C11_WindowInvariant == [][C11_Step]_vars

\* C11 witness: with two rules, dequeues have filled one window to its limit
\* while the other still has room, and a task is waiting.
C11_Witness ==
    /\ Len(rc) = 2
    /\ \E i, j \in 1..Len(rc) :
           /\ rc[i].count = rc[i].limit
           /\ rc[j].count > 0 /\ rc[j].count < rc[j].limit
    /\ queue # <<>>

\* ------------------------------------------------------------------ C12
\* the window of x, reset at time now
ResetAt(x, now) == [x EXCEPT !.start = now, !.count = 0]

\* C12 (as claimed): for a window whose window_start is set to any timestamp
\* (0 included) and any now with now - window_start >= window_seconds, each of
\* can_add(now), time_until_ready(now) and increment(now) first resets the
\* window to (window_start = now, count = 0); so can_add(now) admits, and
\* increment(now) leaves count 1.
C12_WindowExpiry ==
    \A i \in 1..Len(rc) :
        LET x == rc[i]
            now == Now(clock)
        IN  (x.start # None /\ now - x.start >= x.interval) =>
                /\ RateCounter_can_add(x, now).self = ResetAt(x, now)
                /\ RateCounter_can_add(x, now).ret
                /\ RateCounter_time_until_ready(x, now).self = ResetAt(x, now)
                /\ RateCounter_increment(x, now) = [ResetAt(x, now) EXCEPT !.count = 1]

\* ------------------------------------------------------------------ C13
\* every rate window admits at time now, after the expiry handling
Admits(cs, now) ==
    \A i \in 1..Len(cs) : AfterExpiry(cs[i], now).count < cs[i].limit

\* C13: in every reachable state status() answers `empty` exactly when the
\* queue holds no task and `available` exactly when the queue is non-empty
\* and every rate window admits at the current time; a get() at the same
\* clock value, right after that status() or instead of it, returns a task
\* if and only if the answer is `available`.
C13_StatusAgreesWithGet ==
    LET s == TaskQueue_status(queue, rc, clock)
    IN  /\ (s.ret[1] = "empty") <=> (queue = <<>>)
        /\ (s.ret[1] = "available") <=> (queue # <<>> /\ Admits(rc, Now(clock)))
        /\ (TaskQueue_get(queue, s.rc, clock).ret # None) <=> (s.ret[1] = "available")
        /\ (TaskQueue_get(queue, rc, clock).ret # None) <=> (s.ret[1] = "available")

\* C13 witness: status() has answered `available` under a rate limit and a
\* worker inside get() at the same clock value is about to take the task.
C13_Witness ==
    /\ ppc = "notify"
    /\ Len(rc) > 0
    /\ queue # <<>>
    /\ \E w \in Workers : wpc[w] = "get"
    /\ \E i \in 1..Len(rc) : rc[i].count > 0
    /\ TaskQueue_get(queue, rc, clock).ret # None

\* ------------------------------------------------------------------ C14
\* the largest num_seconds of the rules in force
LargestInterval(cs) ==
    CHOOSE m \in {cs[i].interval : i \in 1..Len(cs)} :
        \A i \in 1..Len(cs) : cs[i].interval <= m

\* C14: whenever status() answers unavailable(ttl), ttl is at least 1 and at
\* most the largest configured num_seconds, and status() ttl seconds later
\* answers `available`; while the poller sleeps those ttl seconds (more than
\* its ordinary sleep is left) the queue stays non-empty, no get() succeeds,
\* and whatever status() and get() calls happened meanwhile, status() at the
\* end of the sleep answers `available`.
C14_Step ==
    /\ PStatus =>
           LET s == TaskQueue_status(queue, rc, clock)
           IN  s.ret[1] = "unavailable" =>
                   /\ s.ret[2] >= 1
                   /\ s.ret[2] <= LargestInterval(rc)
                   /\ sleepLeft' = s.ret[2] * TicksPerSec
                   /\ TaskQueue_status(queue', rc', clock + sleepLeft').ret[1]
                          = "available"
    /\ (ppc = "poll" /\ sleepLeft > SleepTicks) =>
           /\ queue # <<>>
           /\ got' = got
           /\ TaskQueue_status(queue', rc', clock' + sleepLeft').ret[1] = "available"

C14_PositiveSufficientTtl == [][C14_Step]_vars

\* C14 witness: with two rules both windows are full and the poller is in
\* the middle of a sleep of ttl seconds, a task waiting.
C14_Witness ==
    /\ ppc = "poll"
    /\ sleepLeft > SleepTicks
    /\ Len(rc) = 2
    /\ \A i \in 1..Len(rc) : rc[i].count = rc[i].limit
    /\ queue # <<>>

\* ------------------------------------------------------------------ C15
\* the poller is running and has not polled yet (a poll leaves a sleep or a
\* pending notify, and a sleep ends only after the clock has advanced)
NeverPolled == ppc = "poll" /\ sleepLeft = 0 /\ clock = 1

\* C15 (as claimed): a worker evaluates queue.get() only after a notification
\* woke it from the wait on the condition, on every iteration of its loop; no
\* task is dequeued before the poller's first poll.
C15_ClaimStep ==
    /\ \A w \in Workers :
           (wpc[w] # "pred" /\ wpc'[w] = "pred") => wpc[w] = "woken"
    /\ NeverPolled => got' = got

C15_DequeueOnlyAfterSignal == [][C15_ClaimStep]_vars

\* C15 (amended): on every iteration of its loop a worker first calls
\* queue.get() without waiting for any notification; it blocks on the
\* condition only when that get() returned nothing, and a blocked worker
\* calls get() again only after the poller's notify_all woke it. Tasks are
\* dequeued only by a worker inside get().
C15_AmendedStep ==
    \A w \in Workers :
        /\ (wpc[w] # "pred" /\ wpc'[w] = "pred") => wpc[w] \in {"loop", "woken"}
        /\ (wpc[w] # "waiting" /\ wpc'[w] = "waiting") =>
               (wpc[w] = "get" /\ wtask'[w] = None /\ got' = got)
        /\ wpc[w] = "waiting" => wpc'[w] \in {"waiting", "woken"}
        /\ (wpc[w] # "woken" /\ wpc'[w] = "woken") =>
               (wpc[w] = "waiting" /\ ppc = "notify" /\ ppc' = "poll")
        /\ wpc[w] = "loop" => wpc'[w] \in {"loop", "pred"}
        /\ got' # got => \E v \in Workers : wpc[v] = "get" /\ wtask'[v] # None

C15_GetFirstThenWait == [][C15_AmendedStep]_vars

\* C15 witness: a worker holds a task it dequeued before the poller's first
\* poll, while another worker, which found nothing, is blocked on the condition.
C15_Witness ==
    /\ NeverPolled
    /\ \E v, w \in Workers : Holding(v) /\ wpc[w] = "waiting"

\* ------------------------------------------------------------------ C16
\* the locks thread w holds
Held(w) ==
    (IF w \in qOwner THEN {"queue"} ELSE {}) \cup
    (IF w \in cvOwner THEN {"cv"} ELSE {}) \cup
    (IF w \in keyOwner THEN {"key"} ELSE {})

\* C16: no thread ever holds the credential lock together with the queue
\* lock (or the condition's lock); a worker that is invoking a task, or whose
\* loop has ended, holds no lock at all; each lock has at most one holder, a
\* worker at the place of the code where it takes it: the queue lock only
\* inside get(), nested in the condition's lock, the credential lock only
\* while reading and advancing the cursor.
C16_LockDiscipline ==
    /\ Cardinality(qOwner) <= 1 /\ Cardinality(cvOwner) <= 1 /\ Cardinality(keyOwner) <= 1
    /\ qOwner \subseteq Workers /\ cvOwner \subseteq Workers /\ keyOwner \subseteq Workers
    /\ \A w \in Workers :
           /\ ~({"key", "queue"} \subseteq Held(w))
           /\ w \in keyOwner <=> wpc[w] = "keyed"
           /\ w \in qOwner <=> wpc[w] = "get"
           /\ w \in cvOwner <=> wpc[w] \in {"pred", "get"}
           /\ wpc[w] \in {"run", "dead", "loop", "waiting", "woken", "key", "off"}
                  => Held(w) = {}

\* C16 witness: while one worker is invoking its task, another holds the
\* credential lock and the queue lock is free for put() and status().
C16_Witness ==
    \E v, w \in Workers :
        /\ wpc[v] = "run"
        /\ Held(w) = {"key"}
        /\ qOwner = {}

\* ------------------------------------------------------------------ C17
\* every holder of a lock can take its next step: it waits for no lock that
\* another thread holds, so no cycle of waiting threads exists
HoldersCanProceed ==
    \A w \in Workers :
        /\ w \in qOwner => ENABLED WGet(w)
        /\ (w \in cvOwner /\ w \notin qOwner) => ENABLED WLockQueue(w)
        /\ w \in keyOwner => ENABLED WKey(w)

\* the poller's sleep is over and it is about to call status()
PollDue == ppc = "poll" /\ sleepLeft = 0

\* C17: under fair scheduling every holder of a lock can always proceed (no
\* deadlock among the queue lock, the condition's lock and the credential
\* lock); a poller whose sleep is over always eventually obtains the queue
\* lock and completes status() (only status() ends PollDue); a poller that
\* wants to notify always eventually obtains the condition's lock and
\* notifies; and every sleep ends. So the poller polls again and again.
C17_PollerNeverBlocked ==
    /\ []HoldersCanProceed
    /\ PollDue ~> ~PollDue
    /\ (ppc = "notify") ~> (ppc = "poll")
    /\ (ppc = "poll") ~> PollDue

\* C17 witness: the poller's sleep is over and it wants the queue lock while
\* a worker holds it inside get() and another worker, woken, wants the
\* condition's lock.
C17_Witness ==
    /\ ppc = "poll"
    /\ sleepLeft = 0
    /\ \E v, w \in Workers : v \in qOwner /\ wpc[w] = "woken"

\* ------------------------------------------------------------------ C18
\* C18 (as claimed): every scheduler constructed with k credentials and a
\* rule (N, T) enforces a cap of exactly N*k per window when k > 1 and
\* exactly N when k <= 1, also when it is a further scheduler constructed
\* from the rule sequence that an earlier construction was given.
C18_CredentialScaling ==
    Constructed =>
        /\ Len(rc) = Len(cfg.rate_limits)
        /\ \A i \in 1..Len(rc) :
               /\ rc[i].interval = cfg.rate_limits[i][2]
               /\ rc[i].limit = cfg.rate_limits[i][1] *
                      (IF cfg.api_keys > 1 THEN cfg.api_keys ELSE 1)

\* ------------------------------------------------------------------ C19
\* C19: when the invocation of a dequeued task raises, the queue, the rate
\* windows, the credential cursor and the dequeue and key histories stay as
\* they are (the task is not put back, its admission and its cursor advance
\* stay counted), the worker's loop is over for good and it holds no lock,
\* and the poller and the other workers are where they were; a task whose
\* invocation has ended is never in the queue or in a worker's hands again.
C19_Step ==
    /\ \A w \in Workers :
           /\ (wpc[w] = "run" /\ wpc'[w] # "run") =>
                  /\ wpc'[w] \in {"loop", "dead"}
                  /\ wtask[w] \in invoked'
                  /\ wtask[w] \notin Range(queue')
           /\ (wpc[w] = "run" /\ wpc'[w] = "dead") =>
                  /\ queue' = queue /\ rc' = rc /\ key_counter' = key_counter
                  /\ got' = got /\ keyed' = keyed
                  /\ invoked' = invoked \cup {wtask[w]}
                  /\ wtask'[w] = None
                  /\ Held(w) = {}
                  /\ ppc' = ppc /\ sleepLeft' = sleepLeft
                  /\ qOwner' = qOwner /\ cvOwner' = cvOwner /\ keyOwner' = keyOwner
                  /\ \A v \in Workers \ {w} : wpc'[v] = wpc[v] /\ wtask'[v] = wtask[v]
           /\ wpc[w] = "dead" =>
                  (wpc'[w] = "dead" /\ wtask'[w] = None /\ Held(w) = {})
           /\ wpc'[w] = "dead" => wpc[w] \in {"run", "dead"}
    /\ \A t \in invoked :
           /\ t \in invoked'
           /\ t \notin Range(queue')
           /\ \A v \in Workers : wtask'[v] # t

C19_TaskFailure == [][C19_Step]_vars

\* C19 witness: one worker's loop has ended on a raising task, while another
\* worker is invoking a task it dequeued, a task is still queued and the
\* poller runs.
C19_Witness ==
    \E v, w \in Workers :
        /\ wpc[v] = "dead"
        /\ wpc[w] = "run"
        /\ ppc # "off"
        /\ Len(got) = Cardinality(invoked) + 1
        /\ queue # <<>>

\* ------------------------------------------------------------------ C20
\* C20: status() never answers `not_started`: in every reachable state (clock
\* values positive and non-decreasing) the answer is `empty`, `available` or
\* unavailable(ttl) with ttl >= 1; a window that was never started has count 0
\* and admits, and a window that refuses has a positive time left.
C20_NeverNotStarted ==
    LET s == TaskQueue_status(queue, rc, clock)
    IN  /\ s.ret[1] \in {"empty", "available", "unavailable"}
        /\ s.ret[1] = "unavailable" => s.ret[2] >= 1
        /\ \A i \in 1..Len(rc) :
               /\ rc[i].start = None => rc[i].count = 0
               /\ ~RateCounter_can_add(rc[i], Now(clock)).ret =>
                      RateCounter_time_until_ready(rc[i], Now(clock)).ret >= 1

\* C20 witness: with two rules the poller has just been answered
\* unavailable(ttl): a task is queued, one window is full and status() now
\* would take the time_until_ready branch again.
C20_Witness ==
    /\ Len(rc) = 2
    /\ queue # <<>>
    /\ ppc = "poll"
    /\ sleepLeft > SleepTicks
    /\ TaskQueue_status(queue, rc, clock).ret[1] = "unavailable"
    /\ \E i \in 1..Len(rc) : rc[i].count < rc[i].limit

====
